---- MODULE Spec2Model ----
(***************************************************************************)
(* git-release (src/index.js): bump a semantic version on given lines of   *)
(* given files, stage, commit, tag, push and publish.                      *)
(*                                                                         *)
(* Text is modelled as a sequence of one-character strings, so that        *)
(* String.prototype.split/join, the version pattern and semver.inc are     *)
(* computed on characters as the program computes them.                    *)
(***************************************************************************)
EXTENDS Integers, Sequences, FiniteSets, TLC

CR == "\r"
LF == "\n"
FF == "\f"

Digits == <<"0", "1", "2", "3", "4", "5", "6", "7", "8", "9">>

IsDigit(c) == \E d \in 1..10 : Digits[d] = c

DigitVal(c) == (CHOOSE d \in 1..10 : Digits[d] = c) - 1

Min(S) == CHOOSE m \in S : \A n \in S : m <= n

(***************************************************************************)
(* JavaScript string primitives                                            *)
(***************************************************************************)

\* s.startsWith(p, i - 1): p occurs in s at the 1-based position i
StartsWithAt(s, p, i) ==
  /\ i >= 1
  /\ i + Len(p) - 1 <= Len(s)
  /\ \A k \in 1..Len(p) : s[i + k - 1] = p[k]

\* s.slice(from - 1): the suffix of s that starts at the 1-based position from
SliceFrom(s, from) == SubSeq(s, from, Len(s))

\* s.split(sep) for a string separator
RECURSIVE split(_, _)
split(s, sep) ==
  IF sep = <<>>
  THEN [i \in 1..Len(s) |-> <<s[i]>>]
  ELSE LET hits == {i \in 1..Len(s) : StartsWithAt(s, sep, i)}
       IN  IF hits = {}
           THEN <<s>>
           ELSE LET i == Min(hits)
                IN  <<SubSeq(s, 1, i - 1)>> \o split(SliceFrom(s, i + Len(sep)), sep)

\* lines.join(sep)
\* a join that ends every line with LF
RECURSIVE join_lf(_, _)
join_lf(lines, sep) ==
  IF Len(lines) = 0 THEN <<>>
  ELSE IF Len(lines) = 1 THEN lines[1]
  ELSE lines[1] \o <<LF>> \o join_lf(Tail(lines), sep)

RECURSIVE join(_, _)
join(lines, sep) ==
  IF Len(lines) = 0 THEN <<>>
  ELSE IF Len(lines) = 1 THEN lines[1]
  ELSE lines[1] \o sep \o join(Tail(lines), sep)

\* s.lastIndexOf(c) + 1: the 1-based position of the last c in s, 0 if none
lastIndexOf(s, c) ==
  LET hits == {i \in 1..Len(s) : s[i] = c}
  IN  IF hits = {} THEN 0 ELSE CHOOSE m \in hits : \A n \in hits : n <= m

\* s.trim()
IsSpace(c) == c \in {" ", "\t", LF, CR, FF}

RECURSIVE trim(_)
trim(s) ==
  IF Len(s) = 0 THEN s
  ELSE IF IsSpace(s[1]) THEN trim(Tail(s))
  ELSE IF IsSpace(s[Len(s)]) THEN trim(SubSeq(s, 1, Len(s) - 1))
  ELSE s

\* s.split(/\r?\n/): every LF separates, and takes a CR right before it along
splitLines(s) ==
  LET pieces == split(s, <<LF>>)
  IN  [k \in 1..Len(pieces) |->
         IF /\ k < Len(pieces)
            /\ Len(pieces[k]) > 0
            /\ pieces[k][Len(pieces[k])] = CR
         THEN SubSeq(pieces[k], 1, Len(pieces[k]) - 1)
         ELSE pieces[k]]

\* sub occurs somewhere in s
Contains(s, sub) == \E i \in 1..(Len(s) + 1) : StartsWithAt(s, sub, i)

\* Number(digits) for a string of decimal digits
RECURSIVE ParseNat(_)
ParseNat(s) ==
  IF Len(s) = 0 THEN 0
  ELSE 10 * ParseNat(SubSeq(s, 1, Len(s) - 1)) + DigitVal(s[Len(s)])

\* String(n) for a natural number
RECURSIVE FormatNat(_)
FormatNat(n) ==
  IF n < 10 THEN <<Digits[n + 1]>>
  ELSE FormatNat(n \div 10) \o <<Digits[(n % 10) + 1]>>

(***************************************************************************)
(* detectLineEnding                                                        *)
(***************************************************************************)

\* a detectLineEnding that answers CR when CR and LF are equally many
detectLineEnding_ge(string) ==
  LET cl == Len(split(string, <<CR, LF>>))
      cr == Len(split(string, <<CR>>))
      lf == Len(split(string, <<LF>>))
  IN  IF cr + lf = 0 THEN <<>>
      ELSE IF cl = cr /\ cl = lf THEN <<CR, FF>>
      ELSE IF cr >= lf THEN <<CR>>
      ELSE <<LF>>

detectLineEnding(string) ==
  LET cl == Len(split(string, <<CR, LF>>))
      cr == Len(split(string, <<CR>>))
      lf == Len(split(string, <<LF>>))
  IN  IF cr + lf = 0 THEN <<>>
      ELSE IF cl = cr /\ cl = lf THEN <<CR, FF>>
      ELSE IF cr > lf THEN <<CR>>
      ELSE <<LF>>

(***************************************************************************)
(* semver: the main-version pattern config.re = semver.re[3] (three         *)
(* numeric identifiers separated by dots, a numeric identifier being a     *)
(* single 0 or a digit run that starts with 1-9), and semver.inc.          *)
(***************************************************************************)

\* number of leading digits of s from position i on
RECURSIVE DigitRun(_, _)
DigitRun(s, i) ==
  IF i > Len(s) \/ ~IsDigit(s[i]) THEN 0 ELSE 1 + DigitRun(s, i + 1)

\* length matched at position i by 0|[1-9]\d*, 0 if it does not match
NumIdLen(s, i) ==
  IF i > Len(s) \/ ~IsDigit(s[i]) THEN 0
  ELSE IF s[i] = "0" THEN 1
  ELSE DigitRun(s, i)

\* length matched at position i by the main-version pattern, 0 if no match
MainVersionLenAt(s, i) ==
  LET a == NumIdLen(s, i)
      b == NumIdLen(s, i + a + 1)
      c == NumIdLen(s, i + a + b + 2)
  IN  IF /\ a > 0
         /\ StartsWithAt(s, <<".">>, i + a)
         /\ b > 0
         /\ StartsWithAt(s, <<".">>, i + a + b + 1)
         /\ c > 0
      THEN a + b + c + 2
      ELSE 0

\* position of the first match of config.re in s, 0 if there is none
MatchPos(s) ==
  LET hits == {i \in 1..Len(s) : MainVersionLenAt(s, i) > 0}
  IN  IF hits = {} THEN 0 ELSE Min(hits)

\* the matched substring (the argument "old" of the replace callback)
MatchText(s) == SubSeq(s, MatchPos(s), MatchPos(s) + MainVersionLenAt(s, MatchPos(s)) - 1)

\* the (major, minor, patch) numbers of a main-version string
VersionParts(v) ==
  LET a == NumIdLen(v, 1)
      b == NumIdLen(v, a + 2)
      c == NumIdLen(v, a + b + 3)
  IN  <<ParseNat(SubSeq(v, 1, a)),
        ParseNat(SubSeq(v, a + 2, a + b + 1)),
        ParseNat(SubSeq(v, a + b + 3, a + b + c + 2))>>

FormatVersion(p, pre) ==
  FormatNat(p[1]) \o <<".">> \o FormatNat(p[2]) \o <<".">> \o FormatNat(p[3])
    \o (IF pre THEN <<"-", "0">> ELSE <<>>)

\* semver.inc(old, type) for a main-version string old (no prerelease part)
SemverInc(old, type) ==
  LET p == VersionParts(old)
  IN  CASE type = "major"      -> FormatVersion(<<p[1] + 1, 0, 0>>, FALSE)
        [] type = "premajor"   -> FormatVersion(<<p[1] + 1, 0, 0>>, TRUE)
        [] type = "minor"      -> FormatVersion(<<p[1], p[2] + 1, 0>>, FALSE)
        [] type = "preminor"   -> FormatVersion(<<p[1], p[2] + 1, 0>>, TRUE)
        [] type = "patch"      -> FormatVersion(<<p[1], p[2], p[3] + 1>>, FALSE)
        [] type = "prepatch"   -> FormatVersion(<<p[1], p[2], p[3] + 1>>, TRUE)
        [] type = "prerelease" -> FormatVersion(<<p[1], p[2], p[3] + 1>>, TRUE)

(***************************************************************************)
(* Bounds and input sets                                                   *)
(***************************************************************************)

\* longest list of release.target values
MaxTargets == 2

\* most external processes of one run that exit with a non-zero status
MaxNonZero == 1

\* positional arguments on the command line: at most this many
MaxArgs == 2

\* pieces (a text, a version, a CR or a LF) a file is made of: at most this many
MaxLen == 4

FileA == <<"a">>
FileB == <<"b">>
FileC == <<"c">>

V100 == <<"1", ".", "0", ".", "0">>
V293 == <<"v", "2", ".", "9", ".", "3", "-", "b">>
Txt == <<"x">>

\* contents of the file a: no line break, LF, CR, CRLF, mixed
ContentsA ==
  { V100,
    Txt \o <<LF>> \o V100 \o <<LF>>,
    Txt \o <<CR>> \o V100,
    Txt \o <<CR, LF>> \o V100 \o <<CR, LF>>,
    V100 \o <<CR, LF>> \o Txt \o <<LF>> \o V293 }

\* contents of the file b
ContentsB ==
  { V293 \o <<LF>>,
    Txt \o <<CR>> \o V293 \o <<CR>> }

\* release.target values
Entry(file, line) == file \o <<":">> \o line

PatchEntries == {Entry(FileA, <<"1">>), Entry(FileA, <<"2">>), Entry(FileB, <<"1">>)}

BadEntries == {Entry(FileA, <<"2">>), Entry(FileB, <<"x">>), Entry(FileC, <<"1">>)}

Lists(S) == UNION {[1..n -> S] : n \in 1..MaxTargets}

\* the working tree of the runs that do not vary the files
PlainFiles ==
  [f \in {FileA, FileB} |->
     IF f = FileA THEN Txt \o <<LF>> \o V100 \o <<LF>> ELSE V293 \o <<LF>>]

\* package.json as the tool uses it: {} when the file does not exist
NoPkg == [scripts_test |-> FALSE, version |-> FALSE, private |-> FALSE, publishConfig |-> FALSE]
FullPkg == [scripts_test |-> TRUE, version |-> TRUE, private |-> FALSE, publishConfig |-> FALSE]
PrivatePkg == [scripts_test |-> TRUE, version |-> TRUE, private |-> TRUE, publishConfig |-> FALSE]
ScopedPkg == [scripts_test |-> FALSE, version |-> TRUE, private |-> FALSE, publishConfig |-> TRUE]

\* package.json on disk: absent, or present with one of the contents above
PackageFiles ==
  {[exists |-> FALSE, json |-> NoPkg]}
    \cup {[exists |-> TRUE, json |-> p] : p \in {FullPkg, PrivatePkg, ScopedPkg}}

Url == <<"u">>
NA == <<"N", "/", "A">>

\* what spawnSync returns: error (spawn failure), exit status, stderr text
SpawnResults ==
  {[error |-> TRUE, status |-> 0, stderr |-> <<>>]}
    \cup {[error |-> FALSE, status |-> st, stderr |-> e] : st \in {0, 1}, e \in {<<>>, <<"E">>}}

\* a main sequence that tags before it commits
MainSequence_tagFirst ==
  <<"inspect", "findNpmRoot", "readPackageJson", "test", "findGitRoot",
    "getConfigTarget", "increment", "tag", "commit", "getRemoteURL", "push",
    "publish", "summary">>

\* the calls of the main sequence, in the order the default case makes them
MainSequence ==
  <<"inspect", "findNpmRoot", "readPackageJson", "test", "findGitRoot",
    "getConfigTarget", "increment", "commit", "tag", "getRemoteURL", "push",
    "publish", "summary">>

\* the statement that follows step in the main sequence
After(step) ==
  LET k == CHOOSE j \in 1..Len(MainSequence) : MainSequence[j] = step
  IN  IF k = Len(MainSequence) THEN "done" ELSE MainSequence[k + 1]

(***************************************************************************)
(* State                                                                   *)
(***************************************************************************)

VARIABLES
  pc,          \* the statement of the main sequence that runs next
  config,      \* the config object
  i,           \* position of config.targets.forEach in increment
  fs,          \* the working tree: file name -> content
  gitconfig,   \* git configuration: release.target, release.push, remote.origin.url
  packageJson, \* package.json in the npm root, if it exists
  log,         \* what the run has done so far, in order
  input        \* the command line and the working tree as the run found them

vars == <<pc, config, i, fs, gitconfig, packageJson, log, input>>

world == <<fs, gitconfig, packageJson, input>>

\* an entry of the log: the operation, its argument (a file name or a
\* version) and its result; for a replace also the 0-based line index, the
\* matched text and the resulting line
Ev(op, arg, res) == [op |-> op, arg |-> arg, res |-> res, n |-> 0, old |-> <<>>, new |-> <<>>]

Replaced(file, n, old, new) ==
  [op |-> "replace", arg |-> file, res |-> IF old = <<>> THEN "nomatch" ELSE "matched",
   n |-> n, old |-> old, new |-> new]

Res(child) == IF child.error THEN "error" ELSE IF child.status = 0 THEN "zero" ELSE "nonzero"

Spawned(op, arg, child) == Ev(op, arg, Res(child))

\* the calls whose exit status does not follow from the state of the world
StatusFree == {"npm test", "git add", "git commit", "git tag", "git push", "npm publish"}

NonZeroCount ==
  Cardinality({k \in 1..Len(log) : log[k].op \in StatusFree /\ log[k].res = "nonzero"})

\* the results an external process may return in this state
Children == {c \in SpawnResults : c.status # 0 => NonZeroCount < MaxNonZero}

\* the results of a query that succeeds (status 0) or fails (status 1)
Query(succeeds) ==
  {c \in SpawnResults : c.error \/ (c.stderr = <<>> /\ (c.status = 0 <=> succeeds))}

ReleaseTypes == {"major", "premajor", "minor", "preminor", "patch", "prepatch", "prerelease"}

\* the command line of a release: one positional argument, no --help, no --version
\* what minimist returns, and the fields the run adds to it: argc is
\* config._.length, showVersion the --version flag (the code keeps it in
\* config.version until the default case stores the version text there)
InitConfig(type, dryRun, t, ps, pb) ==
  [type |-> type, dryRun |-> dryRun, test |-> t, push |-> ps, publish |-> pb,
   argc |-> 1, help |-> FALSE, showVersion |-> FALSE, badArgs |-> FALSE,
   npmpkg |-> NoPkg, remoteURL |-> <<>>, targets |-> <<>>, version |-> <<>>]

True == <<"t", "r", "u", "e">>

\* runs that vary the options, the package and the remote
InitOptions ==
  /\ \E dryRun \in BOOLEAN, t \in BOOLEAN, ps \in BOOLEAN, pb \in BOOLEAN :
       config = InitConfig("minor", dryRun, t, ps, pb)
  /\ fs = PlainFiles
  /\ \E r \in {<<>>, Url}, p \in {<<>>, True} :
       gitconfig = [target |-> <<Entry(FileA, <<"2">>), Entry(FileB, <<"1">>)>>,
                    remote |-> r, push |-> p]
  /\ packageJson \in PackageFiles

\* runs that vary the files and the targets, with the default options
InitPatch ==
  /\ \E type \in {"minor", "prepatch"}, dryRun \in BOOLEAN :
       config = InitConfig(type, dryRun, TRUE, TRUE, TRUE)
  /\ \E a \in ContentsA, b \in ContentsB :
       fs = [f \in {FileA, FileB} |-> IF f = FileA THEN a ELSE b]
  /\ \E ts \in Lists(PatchEntries) :
       gitconfig = [target |-> ts, remote |-> Url, push |-> <<>>]
  /\ packageJson = [exists |-> TRUE, json |-> FullPkg]

\* runs with a release type or targets that may be invalid or missing
InitInvalid ==
  /\ \E type \in {"patch", "release"}, dryRun \in BOOLEAN :
       config = InitConfig(type, dryRun, TRUE, TRUE, TRUE)
  /\ fs = PlainFiles
  /\ \E ts \in Lists(BadEntries) \cup {<<>>} :
       gitconfig = [target |-> ts, remote |-> Url, push |-> <<>>]
  /\ packageJson = [exists |-> TRUE, json |-> FullPkg]

\* dry runs that vary the release type
InitTypes ==
  /\ \E type \in ReleaseTypes \cup {"release", "premajo", "minor1", ""} :
       config = InitConfig(type, TRUE, TRUE, TRUE, TRUE)
  /\ fs = PlainFiles
  /\ gitconfig = [target |-> <<Entry(FileB, <<"1">>)>>, remote |-> Url, push |-> <<>>]
  /\ packageJson = [exists |-> TRUE, json |-> FullPkg]

\* runs that vary the number of positional arguments, --help and --version
InitArgs ==
  /\ \E argc \in 0..MaxArgs, help \in BOOLEAN, version \in BOOLEAN, dryRun \in BOOLEAN :
       config = [InitConfig("minor", dryRun, TRUE, TRUE, TRUE)
                   EXCEPT !.argc = argc, !.help = help, !.showVersion = version]
  /\ fs = PlainFiles
  /\ gitconfig = [target |-> <<Entry(FileA, <<"2">>)>>, remote |-> Url, push |-> <<>>]
  /\ packageJson = [exists |-> TRUE, json |-> FullPkg]

VBeta == V100 \o <<"-", "b", "e", "t", "a">>

\* a release of two files, one with the version 1.0.0 and one with 1.0.0-beta
SuffixFiles ==
  [f \in {FileA, FileB} |-> IF f = FileA THEN V100 \o <<LF>> ELSE VBeta \o <<LF>>]

InitSuffix ==
  /\ \E type \in {"minor", "patch"}, dryRun \in BOOLEAN :
       config = InitConfig(type, dryRun, TRUE, TRUE, TRUE)
  /\ fs = SuffixFiles
  /\ gitconfig = [target |-> <<Entry(FileA, <<"1">>), Entry(FileB, <<"1">>)>>,
                  remote |-> Url, push |-> <<>>]
  /\ packageJson = [exists |-> TRUE, json |-> FullPkg]

File1 == <<"1">>

\* a file with the version on its first two lines
TwoVersions(br) == V100 \o br \o V100 \o br

\* a file with the version on its eleventh line
Line11 == <<LF, LF, LF, LF, LF, LF, LF, LF, LF, LF>> \o V100 \o <<LF>>

\* release.target values at the edges of <filepath>:<lineno>: two lines of
\* one file, the line 0, and a value without a colon
EdgeEntries ==
  {Entry(FileA, <<"1">>), Entry(FileA, <<"2">>), Entry(FileA, <<"0">>), <<"1", "1">>}

\* runs with targets at the edges, in a tree with the files a and 1
InitEdge ==
  /\ \E dryRun \in BOOLEAN : config = InitConfig("minor", dryRun, TRUE, TRUE, TRUE)
  /\ \E br \in {<<LF>>, <<CR>>, <<CR, LF>>} :
       fs = [f \in {FileA, File1} |-> IF f = FileA THEN TwoVersions(br) ELSE Line11]
  /\ \E ts \in Lists(EdgeEntries) :
       gitconfig = [target |-> ts, remote |-> Url, push |-> <<>>]
  /\ packageJson = [exists |-> TRUE, json |-> FullPkg]

Init ==
  /\ pc = "main"
  /\ i = 1
  /\ log = <<>>
  /\ \/ InitOptions
     \/ InitPatch
     \/ InitInvalid
     \/ InitTypes
     \/ InitArgs
     \/ InitSuffix
     \/ InitEdge
  /\ input = [fs |-> fs, argc |-> config.argc, help |-> config.help,
              version |-> config.showVersion]

(***************************************************************************)
(* Steps of the main sequence                                              *)
(***************************************************************************)

\* an abort that returns to its caller
abort_returns(err) == FALSE

\* abort(err) throws exactly when err is set
abort(err) == err

\* an abort that ends the process without raising anything
Aborting_silent(err) == <<>>

\* the log entry of a call of abort with an error
Aborting(err) == IF err THEN <<Ev("abort", <<>>, "")>> ELSE <<>>

\* a step that logs its failure and lets the run go on
Finish_goesOn(next, evs, err) ==
  /\ log' = log \o evs \o Aborting(err)
  /\ pc' = next

\* the rest of a step: log what it did, then unwind or go on with next
Finish(next, evs, err) ==
  /\ log' = log \o evs \o Aborting(err)
  /\ pc' = IF abort(err) THEN "aborted" ELSE next

\* a pattern without the pre-release types: /^(major|minor|patch)$/
InspectMatch_plain(type) == type \in {"major", "minor", "patch"}

\* config.type.match(/^((pre)?(major|minor|patch)|prerelease)$/)
InspectMatch(type) ==
  \/ type \in {"major", "minor", "patch"}
  \/ type \in {"premajor", "preminor", "prepatch"}
  \/ type = "prerelease"

\* an argument test that misses surplus arguments
BadArgs_missingOnly(help, version, argc) == ~help /\ ~version /\ argc = 0

\* !config.help && !config.version && config._.length !== 1
BadArgs(help, version, argc) == ~help /\ ~version /\ argc # 1

\* the end of the script: process.exit(1) after bad arguments
Exit(badArgs) == IF badArgs THEN "exit1" ELSE "done"

\* the argument test and the switch: help, version, or the main sequence
main ==
  /\ pc = "main"
  /\ LET badArgs == BadArgs(config.help, config.showVersion, config.argc)
         help == config.help \/ badArgs
     IN  /\ config' = [config EXCEPT !.help = help, !.badArgs = badArgs]
         /\ IF help
            THEN /\ log' = Append(log, Ev("showHelp", <<>>, ""))
                 /\ pc' = Exit(badArgs)
            ELSE IF config.showVersion
            THEN /\ log' = Append(log, Ev("showVersion", <<>>, ""))
                 /\ pc' = Exit(badArgs)
            ELSE /\ pc' = MainSequence[1]
                 /\ UNCHANGED log
  /\ UNCHANGED <<i, world>>

inspect ==
  /\ pc = "inspect"
  /\ Finish(After("inspect"), <<>>, ~InspectMatch(config.type))
  /\ UNCHANGED <<config, i, world>>

findNpmRoot ==
  /\ pc = "findNpmRoot"
  /\ \E child \in Query(TRUE) :
       Finish(After("findNpmRoot"), <<Spawned("npm prefix", <<>>, child)>>, child.error)
  /\ UNCHANGED <<config, i, world>>

readPackageJson ==
  /\ pc = "readPackageJson"
  /\ config' = IF packageJson.exists
               THEN [config EXCEPT !.npmpkg = packageJson.json]
               ELSE config
  /\ pc' = After("readPackageJson")
  /\ UNCHANGED <<i, world, log>>

\* a test() without its dry-run return
TestRuns_inDryRun == config.test /\ config.npmpkg.scripts_test

\* test() reaches its spawn
TestRuns == config.test /\ config.npmpkg.scripts_test /\ ~config.dryRun

test ==
  /\ pc = "test"
  /\ IF TestRuns
     THEN \E child \in Children :
            Finish(After("test"), <<Spawned("npm test", <<>>, child)>>, child.error)
     ELSE pc' = After("test") /\ UNCHANGED log
  /\ UNCHANGED <<config, i, world>>

findGitRoot ==
  /\ pc = "findGitRoot"
  /\ \E child \in Query(TRUE) :
       Finish(After("findGitRoot"), <<Spawned("git rev-parse", <<>>, child)>>, child.error)
  /\ UNCHANGED <<config, i, world>>

\* what git config --get-all prints: one value per line
RECURSIVE Stdout(_)
Stdout(values) ==
  IF Len(values) = 0 THEN <<>> ELSE values[1] \o <<LF>> \o Stdout(Tail(values))

\* one release.target value, cut at its last colon
ParseTarget(target) ==
  LET colon == lastIndexOf(target, ":")
  IN  [file |-> IF colon = 0
                THEN SubSeq(target, 1, Len(target) - 1)
                ELSE SubSeq(target, 1, colon - 1),
       line |-> SliceFrom(target, colon + 1)]

\* fs.existsSync(file), the tool running in the git root
existsSync(file) == file \in DOMAIN fs

\* a line test that lets every token pass
IsLineNumber_any(line) == TRUE

\* line.match(/^\d+$/)
IsLineNumber(line) == Len(line) > 0 /\ \A k \in 1..Len(line) : IsDigit(line[k])

getConfigTarget ==
  /\ pc = "getConfigTarget"
  /\ \E child \in Query(gitconfig.target # <<>>) :
       LET spawnErr == child.error \/ child.status # 0
           stdout == IF child.error \/ child.status # 0 THEN <<>> ELSE Stdout(gitconfig.target)
           entries == splitLines(trim(stdout))
           parsed == [k \in 1..Len(entries) |-> ParseTarget(entries[k])]
           noFile(k) == ~existsSync(parsed[k].file)
           noLine(k) == ~IsLineNumber(parsed[k].line)
           thrown == {k \in 1..Len(entries) : abort(noFile(k)) \/ abort(noLine(k))}
           stop == IF thrown = {} THEN Len(entries) + 1 ELSE Min(thrown)
           called == {k \in 1..Len(entries) : k <= stop /\ (noFile(k) \/ noLine(k))}
       IN  IF abort(spawnErr)
           THEN /\ Finish(After("getConfigTarget"), <<Spawned("git config release.target", <<>>, child)>>, spawnErr)
                /\ UNCHANGED config
           ELSE /\ config' = [config EXCEPT !.targets = SubSeq(parsed, 1, stop - 1)]
                /\ Finish(After("getConfigTarget"),
                          <<Spawned("git config release.target", <<>>, child)>>
                            \o Aborting(spawnErr)
                            \o [k \in 1..(Cardinality(called) - 1) |-> Ev("abort", <<>>, "")],
                          called # {})
  /\ UNCHANGED <<i, world>>

\* target.line - 1 as an array index: -1 stands for an index that selects
\* nothing ("" - 1 is -1, and a token that is no number gives NaN)
LineIndex(line) ==
  IF Len(line) > 0 /\ \A k \in 1..Len(line) : IsDigit(line[k])
  THEN ParseNat(line) - 1
  ELSE -1

\* line.replace(config.re, callback): the first match gives way to version
Replace(line, version) ==
  LET pos == MatchPos(line)
  IN  IF pos = 0 THEN line
      ELSE SubSeq(line, 1, pos - 1) \o version
             \o SliceFrom(line, pos + MainVersionLenAt(line, pos))

\* a callback that computes the version at every match
NextVersion_recomputed(version, old, type) == SemverInc(old, type)

\* a callback that leaves the version alone in a dry run
NextVersion_notInDryRun(version, old, type) ==
  IF config.dryRun THEN version
  ELSE IF version = <<>> THEN SemverInc(old, type) ELSE version

\* the callback of replace: config.version is computed when it is still unset
NextVersion(version, old, type) ==
  IF version = <<>> THEN SemverInc(old, type) ELSE version

\* an increment without its dry-run test
WritesFile_always == TRUE

\* the steps after the patch of one target: stop before the write in a dry run
WritesFile == ~config.dryRun

\* one call of the forEach callback of increment()
increment ==
  /\ pc = "increment"
  /\ LET target == config.targets[i]
         n == LineIndex(target.line)
         source == fs[target.file]
         le == detectLineEnding(source)
         lines == split(source, le)
         line == lines[n + 1]
         matched == MatchPos(line) > 0
         old == IF matched THEN MatchText(line) ELSE <<>>
         version == IF matched THEN NextVersion(config.version, old, config.type)
                    ELSE config.version
         new == Replace(line, version)
         next == IF i = Len(config.targets) THEN After("increment") ELSE "increment"
     IN  IF \/ target.file \notin DOMAIN fs
            \/ n < 0
            \/ n >= Len(lines)
         THEN \* readFileSync or lines[target.line].replace throws
              /\ pc' = "crashed"
              /\ log' = Append(log, Ev("throw", target.file, ""))
              /\ UNCHANGED <<config, i, world>>
         ELSE /\ config' = [config EXCEPT !.version = version]
              /\ i' = i + 1
              /\ IF WritesFile
                 THEN /\ fs' = [fs EXCEPT ![target.file] = join([lines EXCEPT ![n + 1] = new], le)]
                      /\ \E child \in Children :
                           Finish(next,
                                  <<Replaced(target.file, n, old, new),
                                    Ev("writeFile", target.file, ""),
                                    Spawned("git add", target.file, child)>>,
                                  child.error)
                 ELSE /\ fs' = fs
                      /\ Finish(next, <<Replaced(target.file, n, old, new)>>, FALSE)
              /\ UNCHANGED <<gitconfig, packageJson, input>>

\* --message=Version ${config.version}
CommitMessage(version) == <<"V", "e", "r", "s", "i", "o", "n", " ">> \o version

\* a tag named by the bare version
TagName_bare(version) == version

\* v${config.version}, the name of the tag and the ref that is pushed
TagName(version) == <<"v">> \o version

\* the error test of commit(), tag() and push()
Failed(child) == child.error \/ (child.status # 0 /\ child.stderr # <<>>)

commit ==
  /\ pc = "commit"
  /\ IF config.dryRun
     THEN pc' = After("commit") /\ UNCHANGED log
     ELSE \E child \in Children :
            Finish(After("commit"), <<Spawned("git commit", CommitMessage(config.version), child)>>, Failed(child))
  /\ UNCHANGED <<config, i, world>>

tag ==
  /\ pc = "tag"
  /\ IF config.dryRun
     THEN pc' = After("tag") /\ UNCHANGED log
     ELSE \E child \in Children :
            Finish(After("tag"), <<Spawned("git tag", TagName(config.version), child)>>, Failed(child))
  /\ UNCHANGED <<config, i, world>>

getRemoteURL ==
  /\ pc = "getRemoteURL"
  /\ \E child \in Query(gitconfig.remote # <<>>) :
       LET stdout == IF child.error \/ child.status # 0 THEN <<>> ELSE gitconfig.remote
           url == trim(stdout)
       IN  /\ Finish(After("getRemoteURL"), <<Spawned("git config remote.origin.url", <<>>, child)>>, child.error)
           /\ config' = IF abort(child.error) THEN config
                        ELSE [config EXCEPT !.remoteURL = IF url = <<>> THEN NA ELSE url]
  /\ UNCHANGED <<i, world>>

\* push() reaches its spawn
PushRuns == config.push /\ config.remoteURL # NA /\ ~config.dryRun

push ==
  /\ pc = "push"
  /\ IF PushRuns
     THEN \E child \in Children :
            Finish(After("push"), <<Spawned("git push", TagName(config.version), child)>>, Failed(child))
     ELSE pc' = After("push") /\ UNCHANGED log
  /\ UNCHANGED <<config, i, world>>

\* a publish() that runs only after a push
PublishRuns_afterPush ==
  /\ config.publish
  /\ config.npmpkg.version
  /\ ~config.npmpkg.private
  /\ ~config.npmpkg.publishConfig
  /\ ~config.dryRun
  /\ PushRuns

\* publish() reaches its spawn
PublishRuns ==
  /\ config.publish
  /\ config.npmpkg.version
  /\ ~config.npmpkg.private
  /\ ~config.npmpkg.publishConfig
  /\ ~config.dryRun

publish ==
  /\ pc = "publish"
  /\ IF PublishRuns
     THEN \E child \in Children :
            Finish(After("publish"), <<Spawned("npm publish", <<>>, child)>>, child.error)
     ELSE pc' = After("publish") /\ UNCHANGED log
  /\ UNCHANGED <<config, i, world>>

\* the last statements of the main sequence: the one-line summary
summary ==
  /\ pc = "summary"
  /\ log' = Append(log, Ev("summary", config.version, ""))
  /\ pc' = After("summary")
  /\ UNCHANGED <<config, i, world>>

Next ==
  \/ main
  \/ inspect
  \/ findNpmRoot
  \/ readPackageJson
  \/ test
  \/ findGitRoot
  \/ getConfigTarget
  \/ increment
  \/ commit
  \/ tag
  \/ getRemoteURL
  \/ push
  \/ publish
  \/ summary

Spec == Init /\ [][Next]_vars

\* the process has ended
Ended == pc \in {"done", "exit1", "aborted", "crashed"}

\* the script goes on: it comes to another statement of the main sequence or
\* to the next target of the forEach
Advance ==
  /\ ~Ended
  /\ \E q \in {MainSequence[k] : k \in 1..Len(MainSequence)} \cup {"done", "exit1", "aborted", "crashed"},
         j \in 1..(MaxTargets + 1) :
       pc' = q /\ i' = j

\* the script is one synchronous sequence and every external process
\* returns: as long as the process has not ended, the statement it is at
\* runs and the position moves on
SpecLive == Spec /\ WF_<<pc, i>>(Advance)

(***************************************************************************)
(* The patch of one target, for every small file                           *)
(***************************************************************************)

Tokens == {Txt, V100, <<CR>>, <<LF>>}

RECURSIVE Flatten(_)
Flatten(pieces) ==
  IF Len(pieces) = 0 THEN <<>> ELSE pieces[1] \o Flatten(Tail(pieces))

\* every file made of at most MaxLen pieces
Texts == {Flatten(t) : t \in UNION {[1..n -> Tokens] : n \in 0..MaxLen}}

\* the log of a run that has come to increment() without a failure
SetupLog ==
  <<Ev("npm prefix", <<>>, "zero"), Ev("npm test", <<>>, "zero"),
    Ev("git rev-parse", <<>>, "zero"), Ev("git config release.target", <<>>, "zero")>>

\* a run that is no dry run is about to patch its one target, a line of file a
InitText ==
  /\ pc = "increment"
  /\ i = 1
  /\ log = SetupLog
  /\ \E text \in Texts : fs = [f \in {FileA} |-> text]
  /\ \E line \in {<<"1">>, <<"2">>} :
       /\ gitconfig = [target |-> <<Entry(FileA, line)>>, remote |-> Url, push |-> <<>>]
       /\ config = [InitConfig("minor", FALSE, TRUE, TRUE, TRUE)
                      EXCEPT !.npmpkg = FullPkg,
                             !.targets = <<ParseTarget(Entry(FileA, line))>>]
  /\ packageJson = [exists |-> TRUE, json |-> FullPkg]
  /\ input = [fs |-> fs, argc |-> 1, help |-> FALSE, version |-> FALSE]

NextText == increment

SpecText == InitText /\ [][NextText]_vars

(***************************************************************************)
(* The variant src/git-release.js: the steps of async.series from the      *)
(* patch of the targets on. Its pattern reSemver takes a short pre-release *)
(* and build suffix along, and its replace callback calls semver.inc at    *)
(* every match.                                                            *)
(***************************************************************************)

Letters ==
  {"a", "b", "c", "d", "e", "f", "g", "h", "i", "j", "k", "l", "m", "n", "o", "p", "q",
   "r", "s", "t", "u", "v", "w", "x", "y", "z",
   "A", "B", "C", "D", "E", "F", "G", "H", "I", "J", "K", "L", "M", "N", "O", "P", "Q",
   "R", "S", "T", "U", "V", "W", "X", "Y", "Z"}

\* the character classes [-.0-9a-zA-Z], [.0-9a-zA-Z] and [-0-9a-zA-Z]
InClass(s, k, extra) == k <= Len(s) /\ (IsDigit(s[k]) \/ s[k] \in Letters \/ s[k] \in extra)

\* length matched at position k by (sign [-.0-9a-zA-Z]? last)?, last being
\* one character of the class with the characters of extra
SuffixLenAt(s, k, sign, extra) ==
  IF k > Len(s) \/ s[k] # sign THEN 0
  ELSE IF InClass(s, k + 1, {"-", "."}) /\ InClass(s, k + 2, extra) THEN 3
  ELSE IF InClass(s, k + 1, extra) THEN 2
  ELSE 0

\* length matched at position k by \d+\.\d+\.\d+, 0 if it does not match
DigitsVersionLenAt(s, k) ==
  LET a == DigitRun(s, k)
      b == DigitRun(s, k + a + 1)
      c == DigitRun(s, k + a + b + 2)
  IN  IF /\ a > 0
         /\ StartsWithAt(s, <<".">>, k + a)
         /\ b > 0
         /\ StartsWithAt(s, <<".">>, k + a + b + 1)
         /\ c > 0
      THEN a + b + c + 2
      ELSE 0

\* length matched at position k by reSemver, 0 if it does not match
ReSemverLenAt(s, k) ==
  LET core == DigitsVersionLenAt(s, k)
      pre == SuffixLenAt(s, k + core, "-", {"."})
      build == SuffixLenAt(s, k + core + pre, "+", {"-"})
  IN  IF core = 0 THEN 0 ELSE core + pre + build

\* position of the first match of reSemver in s, 0 if there is none
ReSemverPos(s) ==
  LET hits == {k \in 1..Len(s) : ReSemverLenAt(s, k) > 0}
  IN  IF hits = {} THEN 0 ELSE Min(hits)

ReSemverText(s) == SubSeq(s, ReSemverPos(s), ReSemverPos(s) + ReSemverLenAt(s, ReSemverPos(s)) - 1)

\* line.replace(reSemver, callback)
ReSemverReplace(line, version) ==
  LET pos == ReSemverPos(line)
  IN  IF pos = 0 THEN line
      ELSE SubSeq(line, 1, pos - 1) \o version
             \o SliceFrom(line, pos + ReSemverLenAt(line, pos))

Null == <<"n", "u", "l", "l">>

\* the identifiers of a pre-release are not empty, and a numeric one has no
\* leading zero
ValidPrerelease(pre) ==
  \A id \in {split(pre, <<".">>)[k] : k \in 1..Len(split(pre, <<".">>))} :
    /\ Len(id) > 0
    /\ (\A k \in 1..Len(id) : IsDigit(id[k])) => NumIdLen(id, 1) = Len(id)

\* semver.inc(old, part) for part major, minor or patch and a text that
\* reSemver has matched: null for a text that is no version
SemverIncFull(old, part) ==
  LET core == MainVersionLenAt(old, 1)
      pre == SuffixLenAt(old, core + 1, "-", {"."})
      build == SuffixLenAt(old, core + pre + 1, "+", {"-"})
      prerelease == SubSeq(old, core + 2, core + pre)
      v == VersionParts(old)
  IN  IF \/ core = 0
         \/ core + pre + build # Len(old)
         \/ (pre > 0 /\ ~ValidPrerelease(prerelease))
         \/ (build > 0 /\ \E k \in (core + pre + 2)..Len(old) : old[k] = ".")
      THEN Null
      ELSE CASE part = "major" ->
                  FormatVersion(<<IF v[2] # 0 \/ v[3] # 0 \/ pre = 0 THEN v[1] + 1 ELSE v[1], 0, 0>>, FALSE)
             [] part = "minor" ->
                  FormatVersion(<<v[1], IF v[3] # 0 \/ pre = 0 THEN v[2] + 1 ELSE v[2], 0>>, FALSE)
             [] part = "patch" ->
                  FormatVersion(<<v[1], v[2], IF pre = 0 THEN v[3] + 1 ELSE v[3]>>, FALSE)

\* child_process.exec calls back with an error when the process could not
\* run or has exited with a non-zero status
ExecErr(child) == child.error \/ child.status # 0

\* the log when async.series comes to the patch of the targets
SeriesLog ==
  <<Ev("git rev-parse", <<>>, "zero"), Ev("git config release.target", <<>>, "zero"),
    Ev("git config release.push", <<>>, "zero")>>

InitGitRelease ==
  /\ pc = "patchTargets"
  /\ i = 1
  /\ log = SeriesLog
  /\ \E a \in {Txt \o <<LF>> \o V100 \o <<LF>>, V100}, b \in ContentsB :
       fs = [f \in {FileA, FileB} |-> IF f = FileA THEN a ELSE b]
  /\ \E ts \in Lists(PatchEntries \cup {Entry(FileB, <<"x">>)}), p \in {<<>>, True} :
       gitconfig = [target |-> ts, remote |-> Url, push |-> p]
  /\ \E part \in {"minor", "patch"}, dryRun \in BOOLEAN :
       config = [InitConfig(part, dryRun, FALSE, gitconfig.push = True, FALSE)
                   EXCEPT !.targets = [k \in 1..Len(gitconfig.target) |->
                                        ParseTarget(gitconfig.target[k])]]
  /\ packageJson = [exists |-> FALSE, json |-> NoPkg]
  /\ input = [fs |-> fs, argc |-> 1, help |-> FALSE, version |-> FALSE]

\* one call of the forEach callback of the patch step
patchTargets ==
  /\ pc = "patchTargets"
  /\ LET target == config.targets[i]
         n == LineIndex(target.line)
         source == fs[target.file]
         le == detectLineEnding(source)
         lines == split(source, le)
         line == lines[n + 1]
         matched == ReSemverPos(line) > 0
         old == IF matched THEN ReSemverText(line) ELSE <<>>
         version == IF matched THEN SemverIncFull(old, config.type) ELSE config.version
         new == ReSemverReplace(line, version)
         next == IF i = Len(config.targets) THEN "commitChanges" ELSE "patchTargets"
     IN  IF ~existsSync(target.file) \/ ~IsLineNumber(target.line)
         THEN \* next(new Error(...)): the callback of the series throws
              /\ Finish(next, <<>>, TRUE)
              /\ UNCHANGED <<config, i, world>>
         ELSE IF n < 0 \/ n >= Len(lines)
         THEN /\ pc' = "crashed"
              /\ log' = Append(log, Ev("throw", target.file, ""))
              /\ UNCHANGED <<config, i, world>>
         ELSE /\ config' = [config EXCEPT !.version = version]
              /\ i' = i + 1
              /\ pc' = next
              /\ IF config.dryRun
                 THEN /\ fs' = fs
                      /\ log' = Append(log, Replaced(target.file, n, old, new))
                 ELSE /\ fs' = [fs EXCEPT ![target.file] = join([lines EXCEPT ![n + 1] = new], le)]
                      /\ log' = log \o <<Replaced(target.file, n, old, new),
                                          Ev("writeFile", target.file, "")>>
              /\ UNCHANGED <<gitconfig, packageJson, input>>

\* a step of the series that runs one git command unless it is a dry run
ExecStep(step, next, op, arg, runs) ==
  /\ pc = step
  /\ IF runs
     THEN \E child \in Children : Finish(next, <<Spawned(op, arg, child)>>, ExecErr(child))
     ELSE pc' = next /\ UNCHANGED log
  /\ UNCHANGED <<config, i, world>>

commitChanges ==
  ExecStep("commitChanges", "tagCommit", "git commit", CommitMessage(config.version), ~config.dryRun)

tagCommit ==
  ExecStep("tagCommit", "pushCommit", "git tag", TagName(config.version), ~config.dryRun)

pushCommit ==
  ExecStep("pushCommit", "bumped", "git push", <<>>, config.push /\ ~config.dryRun)

\* the callback of async.series after the last step
bumped ==
  /\ pc = "bumped"
  /\ log' = Append(log, Ev("summary", config.version, ""))
  /\ pc' = "done"
  /\ UNCHANGED <<config, i, world>>

NextGitRelease ==
  \/ patchTargets
  \/ commitChanges
  \/ tagCommit
  \/ pushCommit
  \/ bumped

SpecGitRelease == InitGitRelease /\ [][NextGitRelease]_vars

(***************************************************************************)
(* The variant src/unnamed/part_002: the main sequence from the forEach    *)
(* over the targets on. increment(f, l) patches and writes, stage(f) is a  *)
(* function of its own, and push is switched by release.push.              *)
(***************************************************************************)

\* the log when the main sequence comes to the forEach
StageLog ==
  <<Ev("git rev-parse", <<>>, "zero"), Ev("git config release.target", <<>>, "zero"),
    Ev("git config release.push", <<>>, "zero")>>

InitStage ==
  /\ pc = "forEachTarget"
  /\ i = 1
  /\ log = StageLog
  /\ \E a \in {Txt \o <<LF>> \o V100 \o <<LF>>, V100}, b \in ContentsB :
       fs = [f \in {FileA, FileB} |-> IF f = FileA THEN a ELSE b]
  /\ \E ts \in Lists(PatchEntries), p \in {<<>>, True} :
       gitconfig = [target |-> ts, remote |-> Url, push |-> p]
  /\ \E part \in {"minor", "prepatch"}, dryRun \in BOOLEAN :
       config = [InitConfig(part, dryRun, FALSE, gitconfig.push = True, FALSE)
                   EXCEPT !.targets = [k \in 1..Len(gitconfig.target) |->
                                        ParseTarget(gitconfig.target[k])]]
  /\ packageJson = [exists |-> FALSE, json |-> NoPkg]
  /\ input = [fs |-> fs, argc |-> 1, help |-> FALSE, version |-> FALSE]

\* one call of the forEach callback: increment(file, line), then stage(file)
forEachTarget ==
  /\ pc = "forEachTarget"
  /\ LET target == config.targets[i]
         n == LineIndex(target.line)
         source == fs[target.file]
         le == detectLineEnding(source)
         lines == split(source, le)
         line == lines[n + 1]
         matched == MatchPos(line) > 0
         old == IF matched THEN MatchText(line) ELSE <<>>
         version == IF matched THEN NextVersion(config.version, old, config.type)
                    ELSE config.version
         new == Replace(line, version)
         next == IF i = Len(config.targets) THEN "commitStaged" ELSE "forEachTarget"
         written == IF config.dryRun THEN <<>> ELSE <<Ev("writeFile", target.file, "")>>
     IN  IF n < 0 \/ n >= Len(lines)
         THEN /\ pc' = "crashed"
              /\ log' = Append(log, Ev("throw", target.file, ""))
              /\ UNCHANGED <<config, i, world>>
         ELSE /\ config' = [config EXCEPT !.version = version]
              /\ i' = i + 1
              /\ fs' = IF config.dryRun THEN fs
                       ELSE [fs EXCEPT ![target.file] = join([lines EXCEPT ![n + 1] = new], le)]
              /\ \E child \in Children :
                   Finish(next,
                          <<Replaced(target.file, n, old, new)>> \o written
                            \o <<Spawned("git add", target.file, child)>>,
                          child.error)
              /\ UNCHANGED <<gitconfig, packageJson, input>>

\* commit(), tag() or push(): one git command unless the step is skipped
SpawnStep(step, next, op, arg, runs) ==
  /\ pc = step
  /\ IF runs
     THEN \E child \in Children : Finish(next, <<Spawned(op, arg, child)>>, Failed(child))
     ELSE pc' = next /\ UNCHANGED log
  /\ UNCHANGED <<config, i, world>>

commitStaged ==
  SpawnStep("commitStaged", "tagStaged", "git commit", CommitMessage(config.version), ~config.dryRun)

tagStaged ==
  SpawnStep("tagStaged", "pushStaged", "git tag", TagName(config.version), ~config.dryRun)

pushStaged ==
  SpawnStep("pushStaged", "bumpedTo", "git push", TagName(config.version),
            config.push /\ ~config.dryRun)

\* the last statements of the default case: Bumped to <version>
bumpedTo ==
  /\ pc = "bumpedTo"
  /\ log' = Append(log, Ev("summary", config.version, ""))
  /\ pc' = "done"
  /\ UNCHANGED <<config, i, world>>

NextStage ==
  \/ forEachTarget
  \/ commitStaged
  \/ tagStaged
  \/ pushStaged
  \/ bumpedTo

SpecStage == InitStage /\ [][NextStage]_vars

TypeOK ==
  /\ pc \in {"main", "exit1", "inspect", "findNpmRoot", "readPackageJson", "test", "findGitRoot",
             "getConfigTarget", "increment", "commit", "tag", "getRemoteURL",
             "push", "publish", "summary", "done", "aborted", "crashed",
             "patchTargets", "commitChanges", "tagCommit", "pushCommit", "bumped",
             "forEachTarget", "commitStaged", "tagStaged", "pushStaged", "bumpedTo"}
  /\ i \in 1..(MaxTargets + 1)

(***************************************************************************)
(* Properties                                                              *)
(***************************************************************************)

\* the calls that change the working tree, the repository or the registry
Mutating == {"writeFile", "git add", "git commit", "git tag", "git push", "npm publish"}

\* positions in the log of the events of an operation
At(op) == {k \in 1..Len(log) : log[k].op = op}

\* the targets whose line matched the version pattern, as positions in the log
Matched == {k \in At("replace") : log[k].res = "matched"}

\* the line of a replace event as it is in the working tree now
LineOnDisk(e) ==
  LET source == fs[e.arg]
  IN  split(source, detectLineEnding(source))[e.n + 1]

\* C1: every target line on which the version pattern matched carries the same
\* version, in memory and (unless it is a dry run) in the file, and that
\* version is semver.inc of the text matched on the first matching target,
\* never of a later target's text.
C1_SharedVersion ==
  Matched # {} =>
    /\ config.version = SemverInc(log[Min(Matched)].old, config.type)
    /\ \A k \in Matched :
         /\ Contains(log[k].new, config.version)
         /\ ~config.dryRun => Contains(LineOnDisk(log[k]), config.version)

\* increment() has finished with two matching targets in different files whose
\* lines held different versions
C1_Witness ==
  /\ pc = "commit"
  /\ \E j, k \in Matched :
       /\ j < k
       /\ log[j].arg # log[k].arg
       /\ log[j].old # log[k].old
       /\ SemverInc(log[k].old, config.type) # config.version

\* C2: a run with --dry-run never writes a file and never invokes git add,
\* git commit, git tag, git push or npm publish.
C2_DryRunMutatesNothing ==
  /\ [](config.dryRun => \A k \in 1..Len(log) : log[k].op \notin Mutating)
  /\ [][config.dryRun => fs' = fs]_vars

\* a dry run with push and publish enabled and a publishable package has
\* reached its summary with a computed version
C2_Witness ==
  /\ config.dryRun
  /\ pc = "done"
  /\ config.version # <<>>
  /\ config.push /\ config.publish /\ config.remoteURL = Url
  /\ config.npmpkg = FullPkg

\* C3: once a step has called abort with an error nothing else happens: the
\* abort is the last entry of the log and the run takes no further step.
C3_AbortIsFinal ==
  /\ [](\A k \in At("abort") : k = Len(log) /\ pc = "aborted")
  /\ [][pc # "aborted"]_vars

\* the run was aborted by a failing git commit after a file was written and staged
C3_Witness ==
  /\ pc = "aborted"
  /\ At("git add") # {}
  /\ \E k \in At("git commit") : log[k].res = "nonzero"

\* the mutating external calls
MutatingCalls == {"git add", "git commit", "git tag", "git push", "npm publish"}

\* C4: a mutating external call that exits with a non-zero status is followed
\* by the abort and by nothing else, whatever it wrote to stderr.
C4_NonZeroExitAborts ==
  \A k \in 1..Len(log) :
    (log[k].op \in MutatingCalls /\ log[k].res = "nonzero") =>
      /\ Len(log) = k + 1
      /\ log[k + 1].op = "abort"
      /\ pc = "aborted"

\* C5: after npm test has exited with a non-zero status the run is over: no
\* file is written and no add, commit, tag, push or publish is invoked.
C5_FailedTestStopsRun ==
  \A k \in At("npm test") :
    log[k].res = "nonzero" =>
      /\ pc = "aborted"
      /\ \A j \in 1..Len(log) : log[j].op \notin Mutating

\* the place of a log entry in the order of a run: read, write and stage of
\* the first target, of the second, ..., then commit, tag, push, publish
Rank(k) ==
  LET nth(op) == Cardinality({j \in At(op) : j <= k})
      last == 3 * Len(gitconfig.target)
  IN  CASE log[k].op = "replace"     -> 3 * nth("replace") - 2
        [] log[k].op = "writeFile"   -> 3 * nth("writeFile") - 1
        [] log[k].op = "git add"     -> 3 * nth("git add")
        [] log[k].op = "git commit"  -> last + 1
        [] log[k].op = "git tag"     -> last + 2
        [] log[k].op = "git push"    -> last + 3
        [] log[k].op = "npm publish" -> last + 4

Ranked == {k \in 1..Len(log) : log[k].op \in Mutating \cup {"replace"}}

\* the file of the target that a replace, writeFile or git add entry is about
TargetOf(k) ==
  config.targets[Cardinality({j \in At(log[k].op) : j <= k})].file

\* C6: the targets are read, written and staged one after the other in the
\* configured order; git commit comes after every target was written and
\* staged, git tag after the commit, git push after the tag, npm publish after
\* the push step, and each of the four is invoked at most once.
C6_StepOrder ==
  /\ \A j, k \in Ranked : j < k => Rank(j) < Rank(k)
  /\ \A k \in At("replace") \cup At("writeFile") \cup At("git add") : log[k].arg = TargetOf(k)
  /\ \A k \in 1..Len(config.targets) :
       k <= Len(gitconfig.target) /\ config.targets[k] = ParseTarget(gitconfig.target[k])
  /\ At("git commit") # {} =>
       /\ Cardinality(At("writeFile")) = Len(gitconfig.target)
       /\ Cardinality(At("git add")) = Len(gitconfig.target)
  /\ At("git tag") # {} => At("git commit") # {}
  /\ At("git push") # {} => At("git tag") # {}
  /\ At("npm publish") # {} => At("git tag") # {} /\ pc \in {"summary", "done", "aborted"}

\* a run that is no dry run wrote and staged two targets, committed, tagged,
\* pushed and published, every call with exit status 0, and printed its summary
C6_Witness ==
  /\ pc = "done"
  /\ ~config.dryRun
  /\ Cardinality(At("git add")) = 2
  /\ At("git push") # {}
  /\ At("npm publish") # {}
  /\ \A k \in 1..Len(log) : log[k].res \in {"", "zero", "matched"}

\* C7: the release type is accepted exactly when it is one of the seven
\* keywords; with any other value the run aborts in inspect, before any
\* external process is invoked and before any file is read or written.
C7_TypeChecked ==
  /\ config.type \notin ReleaseTypes =>
       /\ pc \in {"main", "inspect", "aborted"}
       /\ \A k \in 1..Len(log) : log[k].op = "abort"
       /\ fs = PlainFiles
  /\ (config.type \in ReleaseTypes /\ pc # "inspect") =>
       (log = <<>> \/ log[1].op # "abort")

\* a run with a type that is a keyword cut short was aborted by inspect
C7_Witness ==
  /\ config.type = "premajo"
  /\ pc = "aborted"
  /\ Len(log) = 1

\* a release.target value with a line token that is no number, or with a file
\* that does not exist, is configured
BadTargetConfigured ==
  \E k \in 1..Len(gitconfig.target) :
    gitconfig.target[k] \in {Entry(FileB, <<"x">>), Entry(FileC, <<"1">>)}

LineCount(file) == Len(split(fs[file], detectLineEnding(fs[file])))

\* C9: when the line number of a target exceeds the number of lines of its
\* file, no file is modified, the files of earlier targets included.
C9_LineBeyondEndTouchesNothing ==
  (\E k \in 1..Len(config.targets) :
     LineIndex(config.targets[k].line) >= LineCount(config.targets[k].file))
    => At("writeFile") = {}

\* the separator of a file that uses one kind of line break throughout
\* (<<>> for a file that mixes them)
RealSeparator(s) ==
  LET crs == {k \in 1..Len(s) : s[k] = CR}
      lfs == {k \in 1..Len(s) : s[k] = LF}
  IN  IF crs = {} THEN <<LF>>
      ELSE IF lfs = {} THEN <<CR>>
      ELSE IF lfs = {k + 1 : k \in crs} THEN <<CR, LF>>
      ELSE <<>>

\* new differs from old in nothing but line n, the lines being those that sep ends
OnlyLineChanged(old, new, n, sep) ==
  LET a == split(old, sep)
      b == split(new, sep)
  IN  /\ Len(a) = Len(b)
      /\ \A j \in 1..Len(a) : j # n => a[j] = b[j]

\* C10: the patch of target (file, n) changes the file inside its n-th line
\* only, for a file whose line breaks are all LF, all CR or all CRLF.
C10_OnlyTargetLineChanges ==
  [][(pc = "increment" /\ ~config.dryRun /\ pc' # "crashed") =>
       LET file == config.targets[i].file
           n == LineIndex(config.targets[i].line) + 1
           sep == RealSeparator(fs[file])
       IN  sep # <<>> => OnlyLineChanged(fs[file], fs'[file], n, sep)]_vars

\* the number of times the character c occurs in s
CountOf(s, c) == Cardinality({k \in 1..Len(s) : s[k] = c})

\* the number of CR LF pairs in s
CountCRLF(s) == Cardinality({k \in 1..(Len(s) - 1) : s[k] = CR /\ s[k + 1] = LF})

\* C11: a file that a patch has written back has the line-ending token its
\* original content had: detectLineEnding gives the same result for both.
C11_LineEndingRoundTrip ==
  \A k \in At("writeFile") :
    detectLineEnding(fs[log[k].arg]) = detectLineEnding(input.fs[log[k].arg])

\* a file whose lines end with CR was written back with a new version in it
C11_Witness ==
  /\ At("writeFile") # {}
  /\ Matched # {}
  /\ fs # input.fs
  /\ detectLineEnding(input.fs[FileA]) = <<CR>>
  /\ CountOf(input.fs[FileA], CR) > 1

\* s has line breaks and every one of them is a CR LF pair
UniformCRLF(s) ==
  /\ CountCRLF(s) > 0
  /\ CountOf(s, CR) = CountCRLF(s)
  /\ CountOf(s, LF) = CountCRLF(s)

\* C12: for a content whose line breaks are all CR LF pairs detectLineEnding
\* returns the token CR LF, and splitting by the returned token gives the
\* lines of the content, one more than there are line breaks.
C12_CRLFDetected ==
  \A f \in DOMAIN fs :
    UniformCRLF(fs[f]) =>
      /\ detectLineEnding(fs[f]) = <<CR, LF>>
      /\ Len(split(fs[f], detectLineEnding(fs[f]))) = CountCRLF(fs[f]) + 1

\* the four tokens a line ending is reported as
LineEndings == {<<LF>>, <<CR>>, <<CR, LF>>, <<>>}

\* C13: for a content with neither CR nor LF detectLineEnding returns the
\* empty token, and for every content its result is LF, CR, CR LF or empty.
C13_EmptyTokenAndRange ==
  \A f \in DOMAIN fs :
    /\ (CountOf(fs[f], CR) = 0 /\ CountOf(fs[f], LF) = 0) => detectLineEnding(fs[f]) = <<>>
    /\ detectLineEnding(fs[f]) \in LineEndings

\* s has no line break, or line breaks that are all CR LF pairs
EmptyOrUniformCRLF(s) ==
  CountOf(s, CR) = CountCRLF(s) /\ CountOf(s, LF) = CountCRLF(s)

\* C14: for a content that is neither without line breaks nor uniformly CR LF
\* detectLineEnding returns CR when the content has more CR than LF
\* characters and LF otherwise, ties and mixed contents included.
C14_MajorityToken ==
  \A f \in DOMAIN fs :
    ~EmptyOrUniformCRLF(fs[f]) =>
      detectLineEnding(fs[f]) =
        IF CountOf(fs[f], CR) > CountOf(fs[f], LF) THEN <<CR>> ELSE <<LF>>

\* increment() has patched a file with one LF and one CR that are no pair,
\* and split it at its LF
C14_Witness ==
  /\ pc = "commit"
  /\ At("writeFile") # {}
  /\ CountOf(fs[FileA], CR) = 1
  /\ CountOf(fs[FileA], LF) = 1
  /\ CountCRLF(fs[FileA]) = 0
  /\ Matched # {}
  /\ detectLineEnding(fs[FileA]) = <<LF>>

\* the line of a target as increment() finds it in the files
TargetLine(files, target) ==
  LET source == files[target.file]
  IN  split(source, detectLineEnding(source))[LineIndex(target.line) + 1]

\* the version of a release of the files: semver.inc of the text matched on
\* the first target whose line holds a version, whether files are written or not
ExpectedVersion(files, targets, type) ==
  LET hits == {k \in 1..Len(targets) : MatchPos(TargetLine(files, targets[k])) > 0}
  IN  IF hits = {} THEN <<>>
      ELSE SemverInc(MatchText(TargetLine(files, targets[Min(hits)])), type)

\* C15: the version a run has in config.version and prints in its summary is
\* a function of the targets, the original contents and the release type
\* alone, the same for a dry run and for a run that writes; the run that
\* writes has stamped it into the matching lines.
C15_DryRunReportsRealVersion ==
  \A k \in At("summary") :
    /\ log[k].arg = config.version
    /\ config.version = ExpectedVersion(input.fs, config.targets, config.type)
    /\ config.dryRun => fs = input.fs
    /\ ~config.dryRun => \A m \in Matched : Contains(LineOnDisk(log[m]), config.version)

\* a dry run over two targets whose lines hold different versions has printed
\* its summary
C15_Witness ==
  /\ config.dryRun
  /\ pc = "done"
  /\ At("summary") # {}
  /\ \E j, k \in Matched : j < k /\ log[j].old # log[k].old

\* the step of the main sequence has returned without an abort
Returned(step) ==
  \/ At("summary") # {}
  \/ \E j, k \in 1..Len(MainSequence) :
       MainSequence[j] = step /\ MainSequence[k] = pc /\ j < k

\* the git root was located and release.target was read by the steps that
\* have returned
ReadOnlyStepsRan ==
  /\ Returned("findGitRoot") => At("git rev-parse") # {}
  /\ Returned("getConfigTarget") => At("git config release.target") # {}

\* C16: in a dry run the git root is located, release.target is read, and
\* npm test is invoked whenever testing is enabled and package.json has a
\* test script.
C16_DryRunRunsReadOnlySteps ==
  config.dryRun =>
    /\ ReadOnlyStepsRan
    /\ (Returned("test") /\ config.test /\ config.npmpkg.scripts_test) => At("npm test") # {}

\* C16 as amended: in a dry run the git root is located and release.target
\* is read, but npm test is never invoked, also not when testing is enabled
\* and package.json has a test script.
C16_DryRunSkipsTest ==
  config.dryRun =>
    /\ ReadOnlyStepsRan
    /\ At("npm test") = {}

\* a dry run with testing enabled and a test script has printed its summary
C16_Witness ==
  /\ config.dryRun
  /\ config.test
  /\ config.npmpkg.scripts_test
  /\ At("summary") # {}
  /\ At("git rev-parse") # {}
  /\ At("git config release.target") # {}

\* C17: git push is invoked only when the git configuration release.push is
\* exactly "true"; with release.push unset or set to anything else the run
\* does not push.
C17_PushOnlyWhenConfigured ==
  At("git push") # {} => gitconfig.push = True

\* the push option is on and remote.origin.url is configured
PushEnabled == config.push /\ gitconfig.remote # <<>>

\* the publish option is on and package.json exists, has a version, is not
\* private and has no publishConfig
PublishEnabled ==
  /\ config.publish
  /\ packageJson.exists
  /\ packageJson.json.version
  /\ ~packageJson.json.private
  /\ ~packageJson.json.publishConfig

\* C18: in a run that is no dry run, git push has been invoked when the push
\* step has returned exactly if push is enabled and a remote URL is
\* configured, and npm publish has been invoked when the publish step has
\* returned exactly if publish is enabled and package.json has a version, is
\* not private and has no publishConfig, whether or not the run pushed.
C18_PushPublishIndependent ==
  ~config.dryRun =>
    /\ Returned("push") => (At("git push") # {} <=> PushEnabled)
    /\ Returned("publish") => (At("npm publish") # {} <=> PublishEnabled)

\* a run that is no dry run has published without a push, the push option
\* being off
C18_Witness ==
  /\ ~config.dryRun
  /\ At("summary") # {}
  /\ ~config.push
  /\ At("git push") = {}
  /\ At("npm publish") # {}

\* the process has ended, and this is its exit code: 0 at the end of the
\* script, 1 from process.exit(1) and from an exception nobody catches
Exited == pc \in {"done", "exit1", "aborted", "crashed"}
ExitCode == IF pc = "done" THEN 0 ELSE 1

RealLines(s) == split(s, RealSeparator(s))

\* the forEach callback is about to patch a target whose line exists and
\* holds no version
NoMatchTarget ==
  /\ pc = "increment"
  /\ LET target == config.targets[i]
         n == LineIndex(target.line) + 1
     IN  /\ RealSeparator(fs[target.file]) # <<>>
         /\ n \in 1..Len(RealLines(fs[target.file]))
         /\ MatchPos(RealLines(fs[target.file])[n]) = 0

\* C20: the patch of a target whose line holds no version leaves the file
\* as it is, raises no error and does not set or change the shared version;
\* the run goes on with the next target or, after the last one, with commit.
C20_SilentNoMatch ==
  [][NoMatchTarget =>
       /\ fs' = fs
       /\ config'.version = config.version
       /\ pc' # "crashed"
       /\ pc' = "aborted" => log'[Len(log') - 1].res = "error"
       /\ pc' # "aborted" =>
            /\ i' = i + 1
            /\ pc' = IF i = Len(config.targets) THEN "commit" ELSE "increment"]_vars

\* the run has ended with an error: abort(err) threw, or a statement of
\* increment() did
Failure == pc \in {"aborted", "crashed"}

\* the replace entries that were written to disk and whose line no later
\* target has patched again
LastWrites ==
  {k \in At("replace") :
     /\ k < Len(log)
     /\ log[k + 1].op = "writeFile"
     /\ \A j \in At("replace") :
          j > k => (log[j].arg # log[k].arg \/ log[j].n # log[k].n)}

\* C21: a failure is the last thing a run does: no write and no external
\* call follows it, and the lines written before it are on disk as they were
\* written, so nothing is rolled back.
C21_NoRollback ==
  /\ \A k \in At("abort") \cup At("throw") : k = Len(log) /\ Failure
  /\ Failure => \A k \in LastWrites : LineOnDisk(log[k]) = log[k].new
  /\ Failure => Cardinality(At("git add")) = Cardinality(At("writeFile"))

\* a run was aborted by a failing git tag after it had written a new version
\* to a file, staged it and committed
C21_Witness ==
  /\ pc = "aborted"
  /\ fs # input.fs
  /\ At("git add") # {}
  /\ At("git commit") # {}
  /\ \E k \in At("git tag") : log[k].res # "zero"

V110 == <<"1", ".", "1", ".", "0">>

\* C22: after a minor release of the two files, one with 1.0.0 and one with
\* 1.0.0-beta on its target line, both lines are exactly 1.1.0: nothing of
\* the suffix -beta is left.
C22_SuffixReplaced ==
  (/\ input.fs = SuffixFiles
   /\ config.type = "minor"
   /\ ~config.dryRun
   /\ Returned("increment")) =>
    /\ RealLines(fs[FileA])[1] = V110
    /\ RealLines(fs[FileB])[1] = V110

\* C23: in src/git-release.js every target line on which the pattern matched
\* carries the one version of the run, the version the commit message and
\* the tag are made of, and that version is semver.inc of the text matched
\* on the first matching target.
C23_OneVersionInVariant ==
  (pc \notin {"patchTargets", "aborted", "crashed"} /\ Matched # {}) =>
    /\ config.version = SemverIncFull(log[Min(Matched)].old, config.type)
    /\ \A m \in Matched : Contains(log[m].new, config.version)
    /\ \A k \in At("git commit") : log[k].arg = CommitMessage(config.version)
    /\ \A k \in At("git tag") : log[k].arg = TagName(config.version)

\* C24: in src/unnamed/part_002 a dry run stages nothing: git add is not
\* invoked for any target, no file is written, and commit, tag and push are
\* not invoked.
C24_DryRunStagesNothing ==
  config.dryRun =>
    /\ \A k \in 1..Len(log) : log[k].op \notin Mutating
    /\ fs = input.fs

\* the command line asks for a release: one argument, no --help, no --version
ReleaseRun == input.argc = 1 /\ ~input.help /\ ~input.version

\* an error was raised: by abort(err), or by a statement of increment()
Raised == At("abort") \cup At("throw") # {}

\* C25: every run ends; a release run ends either with the success summary
\* or with a raised error, never with both and never with neither, and the
\* summary is printed at most once.
C25_TerminatesOneOutcome ==
  /\ <>Ended
  /\ []((Ended /\ ReleaseRun) => (At("summary") # {} <=> ~Raised))
  /\ [](Cardinality(At("summary")) <= 1)
  /\ [](Raised => (At("summary") = {} /\ Failure))

\* a release run was aborted by its last external call, npm publish
C25_Witness ==
  /\ ReleaseRun
  /\ pc = "aborted"
  /\ At("git push") # {}
  /\ \E k \in At("npm publish") : log[k].res = "error"
  /\ At("summary") = {}

\* C26: every target that passed the validation has a line number of at
\* least 1, and the patch step is never at a target with the line token "0".
C26_PositiveLineNumbers ==
  /\ \A k \in 1..Len(config.targets) : ParseNat(config.targets[k].line) >= 1
  /\ pc = "increment" => config.targets[i].line # <<"0">>

\* the targets are the first two lines of the file a, in either order
BothLinesOfA ==
  /\ Len(config.targets) = 2
  /\ config.targets[1].file = FileA /\ config.targets[2].file = FileA
  /\ {config.targets[1].line, config.targets[2].line} = {<<"1">>, <<"2">>}

\* C27: when two targets name the lines 1 and 2 of one file, in a run that
\* is no dry run, the patch step does not fail at a target, and when it has
\* returned both lines hold the shared version: the second patch is made on
\* what the first wrote.
C27_NoLostUpdate ==
  (BothLinesOfA /\ ~config.dryRun) =>
    /\ pc # "crashed"
    /\ Returned("increment") =>
         LET lines == RealLines(fs[FileA])
         IN  /\ Len(lines) >= 2
             /\ lines[1] = config.version
             /\ lines[2] = config.version
             /\ config.version = V110

\* the patch step has returned
Patched == Returned("increment")

\* C28: in a run that is no dry run every commit message is "Version <v>",
\* every tag created and every ref pushed is "v<v>", and the summary prints
\* <v>, where <v> is the shared version that the matched lines hold; once
\* the patch step has returned <v> does not change.
C28_VersionUsedDownstream ==
  /\ [](~config.dryRun =>
          /\ \A k \in At("git commit") :
               log[k].arg = <<"V", "e", "r", "s", "i", "o", "n", " ">> \o config.version
          /\ \A k \in At("git tag") \cup At("git push") :
               log[k].arg = <<"v">> \o config.version
          /\ \A k \in At("summary") : log[k].arg = config.version
          /\ \A k \in Matched : Contains(log[k].new, config.version))
  /\ [][Patched => config.version' = config.version]_vars

\* a release was committed, tagged and pushed and its summary printed
C28_Witness ==
  /\ ~config.dryRun
  /\ pc = "done"
  /\ Matched # {}
  /\ config.version = V110
  /\ At("git commit") # {} /\ At("git tag") # {} /\ At("git push") # {}
  /\ At("summary") # {}

\* C29: whenever git commit or git tag was invoked, the shared version is a
\* non-empty string: no commit is titled "Version " and no tag is named "v".
C29_CommitAndTagNeedVersion ==
  \A k \in At("git commit") \cup At("git tag") :
    /\ config.version # <<>>
    /\ log[k].arg \notin {<<"V", "e", "r", "s", "i", "o", "n", " ">>, <<"v">>}

\* some configured release.target value holds no colon
NoColonEntry ==
  \E k \in 1..Len(gitconfig.target) : lastIndexOf(gitconfig.target[k], ":") = 0

\* C30: every accepted target is its entry cut at the last colon, and a run
\* with an entry that holds no colon accepts no such entry, does not get
\* past getConfigTarget and writes no file.
C30_NoColonRejected ==
  /\ \A k \in 1..Len(config.targets) :
       /\ k <= Len(gitconfig.target)
       /\ gitconfig.target[k] = config.targets[k].file \o <<":">> \o config.targets[k].line
  /\ NoColonEntry =>
       /\ ~Returned("getConfigTarget")
       /\ At("writeFile") = {}
       /\ fs = input.fs
====
